---- MODULE Spec2Model ----
(***************************************************************************)
(* Foundry Local integration layer of Handy:                               *)
(*   src-tauri/src/managers/foundry.rs  (FoundryManager and its parsers)   *)
(*   src-tauri/src/commands/foundry.rs  (the tauri commands)               *)
(*                                                                         *)
(* Console text is modelled as TLA+ strings, character by character.       *)
(* Stand-ins are used for characters a TLA+ string cannot hold:            *)
(*   ESC (0x1B) is "~", and the four status glyphs (green, yellow,         *)
(*   orange and red circle) are "@", "&", "%" and "!".  None of the        *)
(*   stand-ins is alphanumeric or white space, like the originals.         *)
(***************************************************************************)
EXTENDS Integers, Sequences, FiniteSets, TLC

(***************************************************************************)
(* Characters and the std::str operations the source uses.                 *)
(***************************************************************************)
ESC == "~"
GreenGlyph == "@"
YellowGlyph == "&"
OrangeGlyph == "%"
RedGlyph == "!"

Digits == {"0", "1", "2", "3", "4", "5", "6", "7", "8", "9"}
Uppers == {"A", "B", "C", "D", "E", "F", "G", "H", "I", "J", "K", "L", "M",
           "N", "O", "P", "Q", "R", "S", "T", "U", "V", "W", "X", "Y", "Z"}
Lowers == {"a", "b", "c", "d", "e", "f", "g", "h", "i", "j", "k", "l", "m",
           "n", "o", "p", "q", "r", "s", "t", "u", "v", "w", "x", "y", "z"}
Spaces == {" ", "\t", "\n", "\r"}

\* the i-th character of s, "" past its end
Chr(s, i) == IF i \in 1..Len(s) THEN SubSeq(s, i, i) ELSE ""

\* &s[i..] (1-based), "" past its end
From(s, i) == IF i > Len(s) THEN "" ELSE SubSeq(s, i, Len(s))

Min(S) == CHOOSE i \in S : \A j \in S : i <= j

Max(S) == CHOOSE i \in S : \A j \in S : i >= j

is_ascii_alphanumeric(c) == c \in Digits \cup Uppers \cup Lowers

LowerChar(c) ==
  CASE c = "A" -> "a" [] c = "B" -> "b" [] c = "C" -> "c" [] c = "D" -> "d"
    [] c = "E" -> "e" [] c = "F" -> "f" [] c = "G" -> "g" [] c = "H" -> "h"
    [] c = "I" -> "i" [] c = "J" -> "j" [] c = "K" -> "k" [] c = "L" -> "l"
    [] c = "M" -> "m" [] c = "N" -> "n" [] c = "O" -> "o" [] c = "P" -> "p"
    [] c = "Q" -> "q" [] c = "R" -> "r" [] c = "S" -> "s" [] c = "T" -> "t"
    [] c = "U" -> "u" [] c = "V" -> "v" [] c = "W" -> "w" [] c = "X" -> "x"
    [] c = "Y" -> "y" [] c = "Z" -> "z" [] OTHER -> c

RECURSIVE to_lowercase(_)
to_lowercase(s) ==
  IF Len(s) <= 1 THEN LowerChar(s)
  ELSE LET h == Len(s) \div 2
       IN to_lowercase(SubSeq(s, 1, h)) \o to_lowercase(From(s, h + 1))

starts_with(s, p) == Len(s) >= Len(p) /\ SubSeq(s, 1, Len(p)) = p

\* str::find: the index of the first occurrence of p in s, 0 when there is none
find(s, p) ==
  LET hits == {i \in 1..(Len(s) - Len(p) + 1) : SubSeq(s, i, i + Len(p) - 1) = p}
  IN IF hits = {} THEN 0 ELSE Min(hits)

contains(s, p) == find(s, p) # 0

\* the length of the longest prefix of s made of characters of cs
run_len(s, cs) ==
  LET other == {i \in 1..Len(s) : Chr(s, i) \notin cs}
  IN IF other = {} THEN Len(s) ELSE Min(other) - 1

\* str::trim_start_matches / trim_end_matches with a character predicate
trim_start_in(s, cs) == From(s, run_len(s, cs) + 1)

trim_end_in(s, cs) ==
  LET other == {i \in 1..Len(s) : Chr(s, i) \notin cs}
  IN IF other = {} THEN "" ELSE SubSeq(s, 1, Max(other))

trim_start_not_alnum(s) ==
  LET alnum == {i \in 1..Len(s) : is_ascii_alphanumeric(Chr(s, i))}
  IN IF alnum = {} THEN "" ELSE From(s, Min(alnum))

trim(s) == trim_end_in(trim_start_in(s, Spaces), Spaces)

\* str::lines: split at "\n", drop one trailing "\r" of each line, no final
\* empty line
RECURSIVE lines(_)
lines(s) ==
  IF s = "" THEN << >>
  ELSE LET n == find(s, "\n")
           strip(l) == IF l # "" /\ Chr(l, Len(l)) = "\r"
                       THEN SubSeq(l, 1, Len(l) - 1) ELSE l
       IN IF n = 0 THEN << strip(s) >>
          ELSE << strip(SubSeq(s, 1, n - 1)) >> \o lines(From(s, n + 1))

\* str::split_whitespace
RECURSIVE split_whitespace(_)
split_whitespace(s) ==
  LET t == trim_start_in(s, Spaces)
      ends == {i \in 1..Len(t) : Chr(t, i) \in Spaces}
      e == IF ends = {} THEN Len(t) + 1 ELSE Min(ends)
  IN IF t = "" THEN << >>
     ELSE << SubSeq(t, 1, e - 1) >> \o split_whitespace(From(t, e))

\* the length of the longest prefix of s without white space (\S*)
non_space_len(s) ==
  LET sp == {i \in 1..Len(s) : Chr(s, i) \in Spaces}
  IN IF sp = {} THEN Len(s) ELSE Min(sp) - 1

(***************************************************************************)
(* Results: Ok(v) and Err(message), as in Result<T>; Option<T> is a        *)
(* sequence of length 0 or 1.                                              *)
(***************************************************************************)
Ok(v) == [tag |-> "Ok", val |-> v]
Err(m) == [tag |-> "Err", val |-> m]
IsOk(r) == r.tag = "Ok"
IsErr(r) == r.tag = "Err"
None == << >>
Some(v) == << v >>

(***************************************************************************)
(* The parsers (managers/foundry.rs, free functions).                      *)
(***************************************************************************)
\* the length of a match of ESC [ [0-9;]* (m|K) at the start of s, else 0
ansi_len(s) ==
  LET k == run_len(From(s, 3), Digits \cup {";"})
  IN IF starts_with(s, ESC \o "[") /\ Chr(s, 3 + k) \in {"m", "K"}
     THEN 3 + k ELSE 0

\* strip_ansi: remove every match, leftmost first
RECURSIVE strip_ansi(_)
strip_ansi(input) ==
  LET hits == {i \in 1..Len(input) : ansi_len(From(input, i)) # 0}
      i == Min(hits)
  IN IF hits = {} THEN input
     ELSE SubSeq(input, 1, i - 1)
          \o strip_ansi(From(input, i + ansi_len(From(input, i))))

normalize_base_urlMutant(url) == url

\* normalize_base_url
normalize_base_url(url) ==
  LET scheme_end == find(url, "://")
      scheme == SubSeq(url, 1, scheme_end - 1)
      rest == From(url, scheme_end + 3)
      host_end == find(rest, "/")
      host == SubSeq(rest, 1, host_end - 1)
  IN IF scheme_end # 0 /\ host_end # 0
     THEN scheme \o "://" \o host \o "/v1"
     ELSE trim_end_in(url, {"/"}) \o "/v1"

\* the first match of (https?://\S+) in a line: None or Some(capture)
url_capture(line) ==
  LET at(i) == LET t == From(line, i)
                   p == IF starts_with(t, "https://") THEN 8
                        ELSE IF starts_with(t, "http://") THEN 7 ELSE 0
               IN IF p # 0 /\ non_space_len(From(t, p + 1)) > 0
                  THEN p + non_space_len(From(t, p + 1)) ELSE 0
      hits == {i \in 1..Len(line) : at(i) # 0}
      first == Min(hits)
  IN IF hits = {} THEN None
     ELSE Some(SubSeq(line, first, first + at(first) - 1))

RECURSIVE endpoint_in_lines(_)
endpoint_in_lines(ls) ==
  IF ls = << >>
  THEN Err("Could not find endpoint URL in Foundry service status output")
  ELSE LET c == url_capture(Head(ls))
       IN IF c # None
          THEN Ok(normalize_base_url(trim_end_in(c[1], {".", ","})))
          ELSE endpoint_in_lines(Tail(ls))

\* extract_endpoint_url
extract_endpoint_url(output) == endpoint_in_lines(lines(strip_ansi(output)))

Glyphs == {GreenGlyph, YellowGlyph, OrangeGlyph, RedGlyph}

\* the glyph-line rule of extract_model_id: None or Some(last token)
RECURSIVE glyph_line_id(_)
glyph_line_id(ls) ==
  IF ls = << >> THEN None
  ELSE LET trimmed == trim(Head(ls))
           parts == split_whitespace(trim(trim_start_not_alnum(trimmed)))
       IN IF trimmed # "" /\ (\E g \in Glyphs : starts_with(trimmed, g))
             /\ Len(parts) >= 2
          THEN Some(parts[Len(parts)])
          ELSE glyph_line_id(Tail(ls))

IdChars == Digits \cup Uppers \cup Lowers \cup {"_", "-", "."}

\* the first match of ([A-Za-z0-9_\-\.]+:[0-9]+) in a text
revision_token(text) ==
  LET at(i) == LET t == From(text, i)
                   n == run_len(t, IdChars)
                   d == run_len(From(t, n + 2), Digits)
               IN IF n > 0 /\ Chr(t, n + 1) = ":" /\ d > 0 THEN n + 1 + d ELSE 0
      hits == {i \in 1..Len(text) : at(i) # 0}
      first == Min(hits)
  IN IF hits = {} THEN None
     ELSE Some(SubSeq(text, first, first + at(first) - 1))

ModelIdNotFound ==
  "Could not find model ID in Foundry service list output. Ensure a model is loaded and 'foundry service list' returns its ID."

\* the returns of extract_model_id: the glyph-line rule's id (line 434), else
\* the fallback's (line 443), else the error of line 447
model_id_from(primary, fallback) ==
  IF primary # None THEN Ok(primary[1])
  ELSE IF fallback # None THEN Ok(fallback[1])
  ELSE Err(ModelIdNotFound)

extract_model_idMutant(output) ==
  LET sanitized == strip_ansi(output)
      primary == glyph_line_id(lines(sanitized))
      fallback == revision_token(sanitized)
  IN IF fallback # None THEN Ok(fallback[1])
     ELSE IF primary # None THEN Ok(primary[1])
     ELSE Err(ModelIdNotFound)

\* extract_model_id
extract_model_id(output) ==
  model_id_from(glyph_line_id(lines(strip_ansi(output))),
                revision_token(strip_ansi(output)))

(***************************************************************************)
(* One invocation of the external program.  An Output is what               *)
(* Command::output() gives: spawned = FALSE is the io::Error of a program  *)
(* that could not be started, else the exit status and the two streams.    *)
(***************************************************************************)
DEFAULT_FOUNDRY_MODEL == "phi-4-mini"

SpawnError == "program not found"

\* the value of a function that returns ()
Unit == "()"

Output(success, stdout, stderr) ==
  [spawned |-> TRUE, success |-> success, stdout |-> stdout, stderr |-> stderr]

NoOutput == [spawned |-> FALSE, success |-> FALSE, stdout |-> "", stderr |-> ""]

\* run_foundry_command: the `?` on Command::output()
run_foundry_command(out) == IF out.spawned THEN Ok(out) ELSE Err(SpawnError)

(***************************************************************************)
(* FoundryManager functions that make exactly one invocation, as functions *)
(* of the Output of that invocation.                                       *)
(***************************************************************************)
\* FoundryManager::is_installed; path_exists is get_executable_path().is_some()
is_installed(out, path_exists) ==
  IF out.spawned THEN out.success ELSE path_exists

\* FoundryManager::get_version, lines 75-88, on the Output of `--version`
version_of(out) ==
  LET ls == lines(out.stdout)
      version == IF ls = << >> THEN "" ELSE trim(ls[1])
  IN IF ~out.success
     THEN Err("Foundry '--version' command failed: " \o out.stderr)
     ELSE IF version = "" THEN Err("Foundry '--version' output was empty")
     ELSE Ok(version)

\* FoundryManager::is_service_running
is_service_running(out) ==
  IF IsErr(run_foundry_command(out)) THEN run_foundry_command(out)
  ELSE IF ~out.success
  THEN IF contains(out.stderr, "service is not running")
          \/ contains(out.stderr, "not responding")
       THEN Ok(FALSE)
       ELSE Err("Foundry 'service list' command failed: " \o out.stderr)
  ELSE IF contains(to_lowercase(out.stdout), "not running") THEN Ok(FALSE)
  ELSE Ok(TRUE)

\* FoundryManager::run_model
run_model(model_name, out) ==
  IF IsErr(run_foundry_command(out)) THEN run_foundry_command(out)
  ELSE IF ~out.success
  THEN Err("Failed to run Foundry model '" \o model_name \o "': " \o out.stderr)
  ELSE Ok("unit")

\* FoundryManager::download_model
download_model(model_name, out) ==
  IF IsErr(run_foundry_command(out)) THEN run_foundry_command(out)
  ELSE IF ~out.success
  THEN Err("Failed to download Foundry model '" \o model_name \o "': "
           \o out.stderr)
  ELSE Ok("unit")

\* FoundryManager::is_model_cached
is_model_cached(model_name, out) ==
  IF IsErr(run_foundry_command(out)) THEN run_foundry_command(out)
  ELSE IF ~out.success
  THEN IF contains(to_lowercase(out.stdout), "not running")
          \/ contains(to_lowercase(out.stderr), "not running")
       THEN Ok(FALSE)
       ELSE Err("Foundry 'cache list' command failed: " \o out.stderr)
  ELSE LET ls == lines(out.stdout)
       IN Ok(\E i \in 1..Len(ls) :
               contains(to_lowercase(ls[i]), to_lowercase(model_name)))

\* FoundryManager::get_endpoint_url
get_endpoint_url(out) ==
  IF IsErr(run_foundry_command(out)) THEN run_foundry_command(out)
  ELSE IF ~out.success
  THEN Err("Foundry 'service status' command failed: " \o out.stderr)
  ELSE extract_endpoint_url(out.stdout)

\* Result::map(Some), line 354
map_some(r) == IF IsOk(r) THEN Ok(Some(r.val)) ELSE r

get_model_id_onceMutant(out) ==
  IF IsErr(run_foundry_command(out)) THEN run_foundry_command(out)
  ELSE IF ~out.success
  THEN Err("Foundry 'service list' command failed: " \o out.stderr)
  ELSE IF contains(out.stdout, "no models are currently loaded")
  THEN Ok(None)
  ELSE LET r == extract_model_id(out.stdout)
       IN IF IsOk(r) THEN Ok(Some(r.val)) ELSE r

\* FoundryManager::get_model_id_once: Ok(None), Ok(Some(id)) or Err
get_model_id_once(out) ==
  IF IsErr(run_foundry_command(out)) THEN run_foundry_command(out)
  ELSE IF ~out.success
  THEN Err("Foundry 'service list' command failed: " \o out.stderr)
  ELSE IF contains(to_lowercase(out.stdout), "no models are currently loaded")
  THEN Ok(None)
  ELSE map_some(extract_model_id(out.stdout))

service_ready_onceMutant(out) ==
  IF IsErr(run_foundry_command(out)) THEN run_foundry_command(out)
  ELSE IF ~out.success
  THEN Err("Foundry 'service status' command failed: " \o out.stderr)
  ELSE LET stdout == to_lowercase(out.stdout)
       IN IF contains(stdout, "not running")
          THEN Err("Foundry service is not running.")
          ELSE Ok(contains(stdout, "running on"))

\* one status query of wait_for_service_ready: Err, or Ok(ready?)
service_ready_once(out) ==
  IF IsErr(run_foundry_command(out)) THEN run_foundry_command(out)
  ELSE IF ~out.success
  THEN Err("Foundry 'service status' command failed: " \o out.stderr)
  ELSE LET stdout == to_lowercase(out.stdout)
       IN IF contains(stdout, "not running")
          THEN Err("Foundry service is not running.")
          ELSE Ok(~contains(stdout, "in progress")
                  /\ contains(stdout, "running on"))

(***************************************************************************)
(* What the external program may print.                                    *)
(***************************************************************************)
StatusStdouts ==
  { "",
    "! Model management service is not running!",
    "service not responding",
    "@ service is running on http://127.0.0.1:49798/openai/status",
    "service is running on https://localhost:5273/openai/status.\nstartup in progress" }

StatusStderrs ==
  {"", "service is not running", "Service Not Running", "not responding", "boom"}

ListStdouts ==
  { "",
    "No models are currently loaded.",
    "Models running in service:\n    Alias     Model ID\n@  phi-4-mini    Phi-4-mini-instruct-openvino-gpu:1",
    "loaded qwen2.5-0.5b:3 ok",
    "NO MODELS ARE CURRENTLY LOADED\n@  phi-4-mini    Phi-4-mini-instruct-cpu:2" }

CacheStdouts ==
  { "",
    "Models cached on device:\n   Alias    Model ID\n   phi-4-mini   Phi-4-Mini-instruct:1",
    "service is Not Running" }

Stderrs == {"", "not running", "boom"}

Outputs(stdouts, stderrs) ==
  {NoOutput} \cup {Output(ok, o, e) : ok \in BOOLEAN, o \in stdouts, e \in stderrs}

StatusOutputs == Outputs(StatusStdouts, StatusStderrs)
ListOutputs == Outputs(ListStdouts, {"", "boom"})
CacheOutputs == Outputs(CacheStdouts, Stderrs)
VerbOutputs == Outputs({""}, {"", "boom"})
VersionOutputs ==
  Outputs({"", "0.3.9267.43123\n", "  \r\n0.3.9267", " 0.4.1 \nextra"}, {"", "boom"})

ModelNames == {DEFAULT_FOUNDRY_MODEL, "qwen"}

(***************************************************************************)
(* Texts for extract_endpoint_url.  A UrlCase is a text put together from  *)
(* its parts: what precedes the first URL, the URL's scheme, host[:port]   *)
(* and what the URL goes on with (path, query, fragment), punctuation      *)
(* after it, and what follows.                                             *)
(***************************************************************************)
UrlTails ==
  {"", "/", "/openai/status", "/openai/status?x=1#top", "?x=1", "#top"}

UrlContexts ==
  { << "", "" >>,
    << "@ Model management service is running on ", " (ok)\nsee http://other:1/x" >>,
    << "no address here\n~[32mrunning~[0m on ", " https://second.example/y" >> }

UrlCases ==
  [ctx : UrlContexts, scheme : {"http", "https"},
   host : {"127.0.0.1:49798", "localhost"}, tail : UrlTails,
   punct : {"", ".", ","}]

UrlText(c) ==
  c.ctx[1] \o c.scheme \o "://" \o c.host \o c.tail \o c.punct \o c.ctx[2]

\* texts none of whose lines has http:// or https:// followed by a
\* character that is not white space
NoUrlTexts ==
  {"", "Model management service is not running", "see http:// later\nhttps://",
   "ftp://host/x HTTP://HOST/y"}

EndpointTexts == {UrlText(c) : c \in UrlCases} \cup NoUrlTexts

ExtractedEndpoint == [t \in EndpointTexts |-> extract_endpoint_url(t)]

(***************************************************************************)
(* Texts for extract_model_id.  An IdCase is a listing put together from   *)
(* its parts: the lines before the first line that has a glyph, an alias   *)
(* and an identifier, that line's indentation, glyph, alias and            *)
(* identifier, and what follows.                                           *)
(***************************************************************************)
IdBefores ==
  {"", "Models running in service:\n    Alias     Model ID\n",
   "loaded other-model:7 earlier\n", "!\n  \n& lonely\n"}

IdAfters == {"", "\n% second-alias second-id:2", "  \r\nlater text:9"}

IdCases ==
  [before : IdBefores, lead : {"", "  ~[1;32m"}, glyph : Glyphs,
   alias : {"phi-4-mini", "qwen2.5-0.5b"},
   id : {"Phi-4-mini-instruct-openvino-gpu:1", "model_without_revision"},
   after : IdAfters]

IdText(c) ==
  c.before \o c.lead \o c.glyph \o "  " \o c.alias \o "    " \o c.id
  \o c.after

\* texts without a line that starts with a glyph, and what they hold: a
\* token of the shape name:digits, or none
NoGlyphCases ==
  { << "", None >>, << "Models running in service:\n(none)", None >>,
    << "loaded qwen2.5-0.5b:3 ok", Some("qwen2.5-0.5b:3") >>,
    << "phi-4-mini Phi-4-mini:1\nother:2", Some("Phi-4-mini:1") >>,
    << "alias @ glyph-inside some-id", None >> }

ModelIdTexts == {IdText(c) : c \in IdCases} \cup {p[1] : p \in NoGlyphCases}

ExtractedModelId == [t \in ModelIdTexts |-> extract_model_id(t)]

\* the single-invocation functions, tabulated over the outputs above
RunningOf == [out \in StatusOutputs |-> is_service_running(out)]
EndpointOf == [out \in StatusOutputs |-> get_endpoint_url(out)]
ReadyOf == [out \in StatusOutputs |-> service_ready_once(out)]
ModelIdOf == [out \in ListOutputs |-> get_model_id_once(out)]
CachedOf ==
  [name \in ModelNames |-> [out \in CacheOutputs |-> is_model_cached(name, out)]]

(***************************************************************************)
(* Bounds of the model.                                                    *)
(***************************************************************************)
\* the largest `attempts` a polling loop is called with
MaxAttempts == 3
\* the largest timeout of start_service_with_timeout, in 250 ms polls
MaxTimeout == 2

(***************************************************************************)
(* State.                                                                  *)
(*   path_exists, on_path  the machine: a well-known install path exists,  *)
(*                 "foundry" resolves on the search path                   *)
(*   child, elapsed  the child of start_service_with_timeout and the time  *)
(*                 since it was spawned, in 250 ms units                   *)
(*   op            the call under way: its name and arguments              *)
(*   stack         the call stack, one frame (function, position, locals)  *)
(*                 per function that has not returned; the last is on top  *)
(*   ret           the value of the latest return, None before the first   *)
(*   calls         invocations of the external program so far, per verb    *)
(*   sleeps        thread::sleep / tokio::time::sleep calls so far         *)
(*   last          the latest result of each single-invocation function,   *)
(*                 and of each function a command called                   *)
(*   last_out      the Output of the latest invocation                     *)
(*   settings      the calls of update_foundry_settings so far: the        *)
(*                 arguments of each                                       *)
(*   reply         what a command returned to the front end, None before   *)
(*   tasks         tokio::spawn calls so far                               *)
(*   integrations  calls of initialize_foundry_integration so far          *)
(***************************************************************************)
VARIABLES path_exists, on_path, child, elapsed, op, stack, ret, calls, sleeps,
          last, last_out, settings, reply, tasks, integrations

vars == << path_exists, on_path, child, elapsed, op, stack, ret, calls, sleeps,
           last, last_out, settings, reply, tasks, integrations >>

app == << settings, reply, tasks, integrations >>

Verbs ==
  {"help", "status", "start", "list", "load", "download", "cache", "version",
   "winget"}

Queries == {"try_wait", "is_installed", "is_service_running", "is_model_cached", "get_endpoint_url",
            "get_model_id_once", "run_model", "download_model",
            "service_ready_once", "get_version", "winget",
            "start_service_with_timeout", "ensure_model_downloaded",
            "wait_for_model_cached", "get_endpoint_info"}

Idle ==
  [name |-> "idle", model |-> "", attempts |-> 0, timeout |-> 0, text |-> "",
   windows |-> FALSE]

Init ==
  /\ path_exists \in BOOLEAN
  /\ on_path \in BOOLEAN
  /\ child = "none"
  /\ elapsed = 0
  /\ op = Idle
  /\ stack = << >>
  /\ ret = None
  /\ calls = [v \in Verbs |-> 0]
  /\ sleeps = 0
  /\ last = [q \in Queries |-> None]
  /\ last_out = None
  /\ settings = << >>
  /\ reply = None
  /\ tasks = 0
  /\ integrations = 0

env == << path_exists, on_path >>

Top == stack[Len(stack)]

At(fn, pc) == stack # << >> /\ Top.fn = fn /\ Top.pc = pc

\* the program is started through build_foundry_command: the install path
\* when it exists, else "foundry" on the search path
Resolvable == path_exists \/ on_path

\* one invocation of `verb` through run_foundry_command, Output `out`
Invoke(verb, out) ==
  /\ out.spawned => Resolvable
  /\ calls' = [calls EXCEPT ![verb] = @ + 1]
  /\ last_out' = Some(out)

\* the function on top moves on
Goto(frame) == stack' = [stack EXCEPT ![Len(stack)] = frame] /\ ret' = ret

\* the function on top returns r to its caller
Return(r) == stack' = SubSeq(stack, 1, Len(stack) - 1) /\ ret' = Some(r)

\* the function on top calls `callee` and will resume as `frame`
Call(frame, callee) ==
  stack' = Append([stack EXCEPT ![Len(stack)] = frame], callee) /\ ret' = ret

\* a call is under way and nothing has returned to the outermost caller
Done == op.name # "idle" /\ stack = << >>

\* the value the call under way returned
result == ret[1]

(***************************************************************************)
(* commands/foundry.rs: get_foundry_status                                 *)
(***************************************************************************)
FoundryStatus(f) ==
  [installed |-> f.installed, running |-> f.running,
   endpoint_url |-> f.endpoint_url, model_id |-> f.model_id,
   model_cached |-> f.model_cached]

GetStatusFrame ==
  [fn |-> "get_foundry_status", pc |-> "installed", installed |-> FALSE,
   running |-> FALSE, endpoint_url |-> None, model_id |-> None,
   model_cached |-> FALSE]

CallGetStatus ==
  /\ op = Idle
  /\ op' = [Idle EXCEPT !.name = "get_foundry_status"]
  /\ stack' = << GetStatusFrame >>
  /\ UNCHANGED << env, app, child, elapsed, ret, calls, sleeps, last, last_out >>

\* the three tests of get_foundry_status, on its locals
IfInstalledMutant(f) == TRUE
\* line 59: if installed
IfInstalled(f) == f.installed

\* line 66: if running
IfRunningCache(f) == f.running

IfRunningEndpointMutant(f) == f.installed
\* line 74: if running
IfRunningEndpoint(f) == f.running

\* where get_foundry_status goes on after the locals became f: the next
\* query whose test passes, or the return of lines 88-94
GetStatusProceed(f, after) ==
  IF after = "installed" /\ IfInstalled(f)
  THEN Goto([f EXCEPT !.pc = "running"])
  ELSE IF after \in {"installed", "running"} /\ IfInstalled(f)
          /\ IfRunningCache(f)
  THEN Goto([f EXCEPT !.pc = "cached"])
  ELSE IF after \in {"installed", "running", "cached"} /\ IfInstalled(f)
          /\ IfRunningEndpoint(f)
  THEN Goto([f EXCEPT !.pc = "endpoint"])
  ELSE Return(Ok(FoundryStatus(f)))

\* line 53
GetStatusInstalled ==
  /\ At("get_foundry_status", "installed")
  /\ \E out \in VerbOutputs :
       LET installed == is_installed(out, path_exists)
       IN /\ Invoke("help", out)
          /\ last' = [last EXCEPT !["is_installed"] = Some(installed)]
          /\ GetStatusProceed([Top EXCEPT !.installed = installed], "installed")
  /\ UNCHANGED << env, app, child, elapsed, op, sleeps >>

\* the unwrap_or_else of lines 61-64 and 68-71
UnwrapOrFalseMutant(r) == IF IsOk(r) THEN r.val ELSE TRUE
UnwrapOrFalse(r) == IF IsOk(r) THEN r.val ELSE FALSE

\* lines 60-64
GetStatusRunning ==
  /\ At("get_foundry_status", "running")
  /\ \E out \in StatusOutputs :
       LET r == RunningOf[out]
       IN /\ Invoke("status", out)
          /\ last' = [last EXCEPT !["is_service_running"] = Some(r)]
          /\ GetStatusProceed([Top EXCEPT !.running = UnwrapOrFalse(r)],
                              "running")
  /\ UNCHANGED << env, app, child, elapsed, op, sleeps >>

\* lines 67-71
GetStatusCached ==
  /\ At("get_foundry_status", "cached")
  /\ \E out \in CacheOutputs :
       LET r == CachedOf[DEFAULT_FOUNDRY_MODEL][out]
       IN /\ Invoke("cache", out)
          /\ last' = [last EXCEPT !["is_model_cached"] = Some(r)]
          /\ GetStatusProceed([Top EXCEPT !.model_cached = UnwrapOrFalse(r)],
                              "cached")
  /\ UNCHANGED << env, app, child, elapsed, op, sleeps >>

\* lines 75-78
GetStatusEndpoint ==
  /\ At("get_foundry_status", "endpoint")
  /\ \E out \in StatusOutputs :
       LET r == EndpointOf[out]
           url == IF IsOk(r) THEN Some(r.val) ELSE Top.endpoint_url
       IN /\ Invoke("status", out)
          /\ last' = [last EXCEPT !["get_endpoint_url"] = Some(r)]
          /\ Goto([Top EXCEPT !.endpoint_url = url, !.pc = "model"])
  /\ UNCHANGED << env, app, child, elapsed, op, sleeps >>

\* lines 80-84 and 88-94
GetStatusModel ==
  /\ At("get_foundry_status", "model")
  /\ \E out \in ListOutputs :
       LET r == ModelIdOf[out]
           id == IF IsOk(r) /\ r.val # None THEN r.val ELSE Top.model_id
       IN /\ Invoke("list", out)
          /\ last' = [last EXCEPT !["get_model_id_once"] = Some(r)]
          /\ Return(Ok(FoundryStatus([Top EXCEPT !.model_id = id])))
  /\ UNCHANGED << env, app, child, elapsed, op, sleeps >>

get_foundry_status ==
  \/ GetStatusInstalled
  \/ GetStatusRunning
  \/ GetStatusCached
  \/ GetStatusEndpoint
  \/ GetStatusModel

(***************************************************************************)
(* A direct call of FoundryManager::is_service_running.                    *)
(***************************************************************************)
CallIsServiceRunning ==
  /\ op = Idle
  /\ \E out \in StatusOutputs :
       /\ Invoke("status", out)
       /\ last' = [last EXCEPT !["is_service_running"] = Some(RunningOf[out])]
       /\ ret' = Some(RunningOf[out])
  /\ op' = [Idle EXCEPT !.name = "is_service_running"]
  /\ UNCHANGED << env, app, child, elapsed, stack, sleeps >>

(***************************************************************************)
(* A direct call of FoundryManager::get_model_id_once.                     *)
(***************************************************************************)
CallGetModelIdOnce ==
  /\ op = Idle
  /\ \E out \in ListOutputs :
       /\ Invoke("list", out)
       /\ last' = [last EXCEPT !["get_model_id_once"] = Some(ModelIdOf[out])]
       /\ ret' = Some(ModelIdOf[out])
  /\ op' = [Idle EXCEPT !.name = "get_model_id_once"]
  /\ UNCHANGED << env, app, child, elapsed, stack, sleeps >>

(***************************************************************************)
(* A direct call of FoundryManager::is_installed.  It returns a bool and no *)
(* Result: Value(b) is the bool b as a return value.                       *)
(***************************************************************************)
Value(v) == [tag |-> "Value", val |-> v]

CallIsInstalled ==
  /\ op = Idle
  /\ \E out \in VerbOutputs :
       LET installed == is_installed(out, path_exists)
       IN /\ Invoke("help", out)
          /\ last' = [last EXCEPT !["is_installed"] = Some(installed)]
          /\ ret' = Some(Value(installed))
  /\ op' = [Idle EXCEPT !.name = "is_installed"]
  /\ UNCHANGED << env, app, child, elapsed, stack, sleeps >>

(***************************************************************************)
(* A direct call of FoundryManager::is_model_cached.                       *)
(***************************************************************************)
CallIsModelCached ==
  /\ op = Idle
  /\ \E model \in ModelNames, out \in CacheOutputs :
       /\ Invoke("cache", out)
       /\ last' = [last EXCEPT !["is_model_cached"] = Some(CachedOf[model][out])]
       /\ ret' = Some(CachedOf[model][out])
       /\ op' = [Idle EXCEPT !.name = "is_model_cached", !.model = model]
  /\ UNCHANGED << env, app, child, elapsed, stack, sleeps >>

(***************************************************************************)
(* A call of extract_endpoint_url.                                         *)
(***************************************************************************)
CallExtractEndpointUrl ==
  /\ op = Idle
  /\ \E t \in EndpointTexts :
       /\ op' = [Idle EXCEPT !.name = "extract_endpoint_url", !.text = t]
       /\ ret' = Some(ExtractedEndpoint[t])
  /\ UNCHANGED << env, app, child, elapsed, stack, calls, sleeps, last, last_out >>

(***************************************************************************)
(* A call of extract_model_id.                                             *)
(***************************************************************************)
CallExtractModelId ==
  /\ op = Idle
  /\ \E t \in ModelIdTexts :
       /\ op' = [Idle EXCEPT !.name = "extract_model_id", !.text = t]
       /\ ret' = Some(ExtractedModelId[t])
  /\ UNCHANGED << env, app, child, elapsed, stack, calls, sleeps, last, last_out >>

(***************************************************************************)
(* FoundryManager::get_version                                             *)
(***************************************************************************)
GetVersionFrame == [fn |-> "get_version", pc |-> "first"]

\* lines 59-61: `--version` through build_foundry_command
GetVersionFirst ==
  /\ At("get_version", "first")
  /\ \E out \in VersionOutputs :
       /\ Invoke("version", out)
       /\ IF out.spawned
          THEN /\ Return(version_of(out))
               /\ last' = [last EXCEPT !["get_version"] = Some(version_of(out))]
          ELSE IF path_exists
          THEN Goto([Top EXCEPT !.pc = "retry"]) /\ last' = last
          ELSE /\ Return(Err("Foundry executable not found"))
               /\ last' = [last EXCEPT !["get_version"] =
                                        Some(Err("Foundry executable not found"))]
  /\ UNCHANGED << env, app, child, elapsed, op, sleeps >>

\* lines 62-73: `--version` once more, through the install path
GetVersionRetry ==
  /\ At("get_version", "retry")
  /\ \E out \in VersionOutputs :
       LET r == IF out.spawned THEN version_of(out) ELSE Err(SpawnError)
       IN /\ Invoke("version", out)
          /\ Return(r)
          /\ last' = [last EXCEPT !["get_version"] = Some(r)]
  /\ UNCHANGED << env, app, child, elapsed, op, sleeps >>

get_version == GetVersionFirst \/ GetVersionRetry

(***************************************************************************)
(* FoundryManager::install_foundry_local.  op.windows is the build: the    *)
(* body for target_os = "windows" or the other one.  get_executable_path   *)
(* looks nowhere in the other build, so a path only exists under Windows.  *)
(***************************************************************************)
PlatformUnsupported ==
  "Foundry Local installation is only supported on Windows."

CallInstall ==
  /\ op = Idle
  /\ \E w \in BOOLEAN :
       /\ path_exists => w
       /\ op' = [Idle EXCEPT !.name = "install_foundry_local", !.windows = w]
  /\ stack' = << [fn |-> "install_foundry_local", pc |-> "start"] >>
  /\ UNCHANGED << env, app, child, elapsed, ret, calls, sleeps, last, last_out >>

\* lines 111-114
InstallElsewhere ==
  /\ At("install_foundry_local", "start")
  /\ ~op.windows
  /\ Return(Err(PlatformUnsupported))
  /\ UNCHANGED << env, app, child, elapsed, op, calls, sleeps, last, last_out >>

\* lines 94-96
InstallCheck ==
  /\ At("install_foundry_local", "start")
  /\ op.windows
  /\ \E out \in VerbOutputs :
       LET installed == is_installed(out, path_exists)
       IN /\ Invoke("help", out)
          /\ last' = [last EXCEPT !["is_installed"] = Some(installed)]
          /\ IF installed
             THEN Call([Top EXCEPT !.pc = "version"], GetVersionFrame)
             ELSE Goto([Top EXCEPT !.pc = "winget"])
  /\ UNCHANGED << env, app, child, elapsed, op, sleeps >>

\* the result of `winget install Microsoft.FoundryLocal`, lines 99-106
winget_install(out) ==
  IF ~out.spawned THEN Err(SpawnError)
  ELSE IF ~out.success THEN Err("winget install failed: " \o out.stderr)
  ELSE Ok(Unit)

\* lines 98-108: winget is a program of its own, found or not whatever the
\* machine has of Foundry; a run that exits zero may have put the product
\* on the search path and at the well-known path
InstallWinget ==
  /\ At("install_foundry_local", "winget")
  /\ \E out \in VerbOutputs :
       LET r == winget_install(out)
       IN /\ calls' = [calls EXCEPT !["winget"] = @ + 1]
          /\ last_out' = Some(out)
          /\ last' = [last EXCEPT !["winget"] = Some(r)]
          /\ IF IsErr(r)
             THEN Return(r) /\ UNCHANGED env
             ELSE /\ Call([Top EXCEPT !.pc = "version"], GetVersionFrame)
                  /\ path_exists' \in {path_exists, TRUE}
                  /\ on_path' \in {on_path, TRUE}
  /\ UNCHANGED << app, child, elapsed, op, sleeps >>

\* `return Self::get_version()` of line 95 and the tail call of line 108
InstallVersion ==
  /\ At("install_foundry_local", "version")
  /\ Return(ret[1])
  /\ UNCHANGED << env, app, child, elapsed, op, calls, sleeps, last, last_out >>

install_foundry_local ==
  InstallElsewhere \/ InstallCheck \/ InstallWinget \/ InstallVersion

(***************************************************************************)
(* FoundryManager::start_service_with_timeout                              *)
(***************************************************************************)
\* what a step of a loop does next
Continue == [do |-> "sleep", val |-> Unit]
Finish(r) == [do |-> "return", val |-> r]

CallStartService ==
  /\ op = Idle
  /\ \E t \in 0..MaxTimeout :
       /\ op' = [Idle EXCEPT !.name = "start_service_with_timeout",
                             !.timeout = t]
       /\ stack' = << [fn |-> "start_service_with_timeout", pc |-> "spawn",
                       timeout |-> t] >>
  /\ UNCHANGED << env, app, child, elapsed, ret, calls, sleeps, last, last_out >>

\* lines 159-163: Command::new("foundry") is resolved on the search path
StartServiceSpawn ==
  /\ At("start_service_with_timeout", "spawn")
  /\ calls' = [calls EXCEPT !["start"] = @ + 1]
  /\ \/ /\ on_path
        /\ child' = "running"
        /\ elapsed' = 0
        /\ Goto([Top EXCEPT !.pc = "poll"])
     \/ /\ Return(Err(SpawnError))
        /\ UNCHANGED << child, elapsed >>
  /\ UNCHANGED << env, app, op, sleeps, last, last_out >>

\* child.try_wait(): Err, Ok(None) while the child runs, Ok(Some(success))
TryWait ==
  {Err("try_wait failed")}
    \cup (IF child = "running" THEN {Ok(None)}
          ELSE {Ok(Some(child = "exited_zero"))})

StartPollStepMutant(status, now, timeout) ==
  IF IsErr(status) THEN Finish(status)
  ELSE IF status.val # None
  THEN IF ~status.val[1]
       THEN Finish(Err("Failed to start Foundry service: exit status: 1"))
       ELSE Finish(Ok(Unit))
  ELSE IF now >= timeout
  THEN Finish(Err("Foundry service start timed out"))
  ELSE Continue

\* lines 165-180: one turn of the loop, on the value of try_wait and the time
StartPollStep(status, now, timeout) ==
  IF IsErr(status) THEN Finish(status)
  ELSE IF status.val # None
  THEN IF ~status.val[1]
       THEN Finish(Err("Failed to start Foundry service: exit status: 1"))
       ELSE Finish(Ok(Unit))
  ELSE IF now >= timeout THEN Finish(Ok(Unit))
  ELSE Continue

\* lines 164-181; the sleep of line 180 lasts 250 ms or longer
StartServicePoll ==
  /\ At("start_service_with_timeout", "poll")
  /\ \E status \in TryWait :
       LET step == StartPollStep(status, elapsed, Top.timeout)
       IN /\ last' = [last EXCEPT !["try_wait"] = Some(status)]
          /\ IF step.do = "return"
             THEN Return(step.val) /\ UNCHANGED << sleeps, elapsed >>
             ELSE /\ Goto(Top)
                  /\ sleeps' = sleeps + 1
                  /\ \E d \in 1..2 : elapsed' = elapsed + d
  /\ UNCHANGED << env, app, child, op, calls, last_out >>

\* the child of the start verb exits on its own, at any time
ChildExits ==
  /\ child = "running"
  /\ child' \in {"exited_zero", "exited_nonzero"}
  /\ UNCHANGED << env, app, elapsed, op, stack, ret, calls, sleeps, last, last_out >>

start_service_with_timeout == StartServiceSpawn \/ StartServicePoll

(***************************************************************************)
(* FoundryManager::ensure_model_downloaded                                 *)
(***************************************************************************)
EnsureDownloadedFrame(model) ==
  [fn |-> "ensure_model_downloaded", pc |-> "cached", model |-> model]

CallEnsureModelDownloaded ==
  /\ op = Idle
  /\ \E m \in ModelNames :
       /\ op' = [Idle EXCEPT !.name = "ensure_model_downloaded", !.model = m]
       /\ stack' = << EnsureDownloadedFrame(m) >>
  /\ UNCHANGED << env, app, child, elapsed, ret, calls, sleeps, last, last_out >>

AfterCacheCheckMutant(r) ==
  IF IsErr(r) THEN Finish(r)
  ELSE IF ~r.val THEN Finish(Ok(Unit))
  ELSE Continue

\* lines 248-250, on the value of is_model_cached
AfterCacheCheck(r) ==
  IF IsErr(r) THEN Finish(r)
  ELSE IF r.val THEN Finish(Ok(Unit))
  ELSE Continue

EnsureDownloadedCached ==
  /\ At("ensure_model_downloaded", "cached")
  /\ \E out \in CacheOutputs :
       LET r == CachedOf[Top.model][out]
           step == AfterCacheCheck(r)
       IN /\ Invoke("cache", out)
          /\ last' = [last EXCEPT !["is_model_cached"] = Some(r)]
          /\ IF step.do = "return" THEN Return(step.val)
             ELSE Goto([Top EXCEPT !.pc = "download"])
  /\ UNCHANGED << env, app, child, elapsed, op, sleeps >>

\* lines 252-253
EnsureDownloadedDownload ==
  /\ At("ensure_model_downloaded", "download")
  /\ \E out \in VerbOutputs :
       LET r == download_model(Top.model, out)
       IN /\ Invoke("download", out)
          /\ last' = [last EXCEPT !["download_model"] = Some(r)]
          /\ Return(r)
  /\ UNCHANGED << env, app, child, elapsed, op, sleeps >>

ensure_model_downloaded == EnsureDownloadedCached \/ EnsureDownloadedDownload

(***************************************************************************)
(* commands/foundry.rs: wait_for_model_cached                              *)
(***************************************************************************)
WaitCachedFrame(model, attempts) ==
  [fn |-> "wait_for_model_cached", pc |-> "loop", model |-> model,
   attempt |-> 1, attempts |-> attempts]

CallWaitForModelCached ==
  /\ op = Idle
  /\ \E m \in ModelNames, n \in 1..MaxAttempts :
       /\ op' = [Idle EXCEPT !.name = "wait_for_model_cached", !.model = m,
                             !.attempts = n]
       /\ stack' = << WaitCachedFrame(m, n) >>
  /\ UNCHANGED << env, app, child, elapsed, ret, calls, sleeps, last, last_out >>

WaitCachedStepMutant(r, attempt, attempts) ==
  IF IsErr(r) THEN Finish(Err("Failed to check Foundry cache: " \o r.val))
  ELSE IF r.val THEN Finish(Ok(Unit))
  ELSE IF attempt <= attempts THEN Continue
  ELSE Finish(Err("Foundry model was not cached in time."))

\* lines 14-32: one turn of the loop, on the value of is_model_cached
WaitCachedStep(r, attempt, attempts) ==
  IF IsErr(r) THEN Finish(Err("Failed to check Foundry cache: " \o r.val))
  ELSE IF r.val THEN Finish(Ok(Unit))
  ELSE IF attempt < attempts THEN Continue
  ELSE Finish(Err("Foundry model was not cached in time."))

WaitCachedPoll ==
  /\ At("wait_for_model_cached", "loop")
  /\ \E out \in CacheOutputs :
       LET r == CachedOf[Top.model][out]
           step == WaitCachedStep(r, Top.attempt, Top.attempts)
       IN /\ Invoke("cache", out)
          /\ last' = [last EXCEPT !["is_model_cached"] = Some(r)]
          /\ IF step.do = "return"
             THEN Return(step.val) /\ sleeps' = sleeps
             ELSE /\ Goto([Top EXCEPT !.attempt = @ + 1])
                  /\ sleeps' = sleeps + 1
  /\ UNCHANGED << env, app, child, elapsed, op >>

(***************************************************************************)
(* FoundryManager::wait_for_service_ready                                  *)
(***************************************************************************)
CallWaitForServiceReady ==
  /\ op = Idle
  /\ \E n \in 0..MaxAttempts :
       /\ op' = [Idle EXCEPT !.name = "wait_for_service_ready",
                             !.attempts = n]
       /\ stack' = << [fn |-> "wait_for_service_ready", pc |-> "loop",
                       attempt |-> 1, attempts |-> n] >>
  /\ UNCHANGED << env, app, child, elapsed, ret, calls, sleeps, last, last_out >>

\* lines 280-305: one turn of the loop, on the status query
WaitReadyStep(r, attempt, attempts) ==
  IF IsErr(r) THEN Finish(r)
  ELSE IF r.val THEN Finish(Ok(Unit))
  ELSE IF attempt < attempts THEN Continue
  ELSE Finish(Err("Foundry service did not become ready in time."))

WaitReadyPoll ==
  /\ At("wait_for_service_ready", "loop")
  /\ Top.attempt <= Top.attempts
  /\ \E out \in StatusOutputs :
       LET r == ReadyOf[out]
           step == WaitReadyStep(r, Top.attempt, Top.attempts)
       IN /\ Invoke("status", out)
          /\ last' = [last EXCEPT !["service_ready_once"] = Some(r)]
          /\ IF step.do = "return"
             THEN Return(step.val) /\ sleeps' = sleeps
             ELSE /\ Goto([Top EXCEPT !.attempt = @ + 1])
                  /\ sleeps' = sleeps + 1
  /\ UNCHANGED << env, app, child, elapsed, op >>

\* `for attempt in 1..=attempts` with nothing to run, then line 305
WaitReadyNoAttempts ==
  /\ At("wait_for_service_ready", "loop")
  /\ Top.attempt > Top.attempts
  /\ Return(Err("Foundry service did not become ready in time."))
  /\ UNCHANGED << env, app, child, elapsed, op, calls, sleeps, last, last_out >>

wait_for_service_ready == WaitReadyPoll \/ WaitReadyNoAttempts

(***************************************************************************)
(* FoundryManager::get_model_id_with_retry                                 *)
(***************************************************************************)
\* the attempts both callers pass (lines 187 and 313)
ModelIdAttempts == 10

ModelIdRetryFrameMutant ==
  [fn |-> "get_model_id_with_retry", pc |-> "loop", attempt |-> 0,
   attempts |-> ModelIdAttempts]

\* `for attempt in 1..=attempts` of line 361, as both callers enter it
ModelIdRetryFrame ==
  [fn |-> "get_model_id_with_retry", pc |-> "loop", attempt |-> 1,
   attempts |-> ModelIdAttempts]

ModelIdRetryStepMutant(r, attempt, attempts) ==
  IF IsErr(r) THEN Finish(r)
  ELSE IF attempt < attempts THEN Continue
  ELSE IF r.val # None THEN Finish(Ok(r.val[1]))
  ELSE Finish(Err(ModelIdNotFound))

\* lines 361-373: one turn of the loop, on the value of get_model_id_once
ModelIdRetryStep(r, attempt, attempts) ==
  IF IsErr(r) THEN Finish(r)
  ELSE IF r.val # None THEN Finish(Ok(r.val[1]))
  ELSE IF attempt < attempts THEN Continue
  ELSE Finish(Err(ModelIdNotFound))

ModelIdRetryPoll ==
  /\ At("get_model_id_with_retry", "loop")
  /\ \E out \in ListOutputs :
       LET r == ModelIdOf[out]
           step == ModelIdRetryStep(r, Top.attempt, Top.attempts)
       IN /\ Invoke("list", out)
          /\ last' = [last EXCEPT !["get_model_id_once"] = Some(r)]
          /\ IF step.do = "return"
             THEN Return(step.val) /\ sleeps' = sleeps
             ELSE /\ Goto([Top EXCEPT !.attempt = @ + 1])
                  /\ sleeps' = sleeps + 1
  /\ UNCHANGED << env, app, child, elapsed, op >>

(***************************************************************************)
(* FoundryManager::ensure_model_loaded                                     *)
(***************************************************************************)
\* the attempts of line 310
LoadAttempts == 3

LoadExhausted == "Failed to load Foundry model after multiple attempts."

CallEnsureModelLoaded ==
  /\ op = Idle
  /\ \E m \in ModelNames :
       /\ op' = [Idle EXCEPT !.name = "ensure_model_loaded", !.model = m]
       /\ stack' = << [fn |-> "ensure_model_loaded", pc |-> "load",
                       model |-> m, attempt |-> 1] >>
  /\ UNCHANGED << env, app, child, elapsed, ret, calls, sleeps, last, last_out >>

\* line 311 and the call of line 313
EnsureLoadedLoad ==
  /\ At("ensure_model_loaded", "load")
  /\ \E out \in VerbOutputs :
       LET r == run_model(Top.model, out)
       IN /\ Invoke("load", out)
          /\ last' = [last EXCEPT !["run_model"] = Some(r)]
          /\ IF IsErr(r) THEN Return(r)
             ELSE Call([Top EXCEPT !.pc = "retried"], ModelIdRetryFrame)
  /\ UNCHANGED << env, app, child, elapsed, op, sleeps >>

EnsureLoadedStepMutant(r, attempt) ==
  IF IsOk(r) THEN Finish(r)
  ELSE IF attempt < LoadAttempts - 1 THEN Continue
  ELSE Finish(Err(LoadExhausted))

\* lines 312-323, on the value of get_model_id_with_retry
EnsureLoadedStep(r, attempt) ==
  IF IsOk(r) THEN Finish(r)
  ELSE IF attempt < LoadAttempts THEN Continue
  ELSE Finish(Err(LoadExhausted))

EnsureLoadedRetried ==
  /\ At("ensure_model_loaded", "retried")
  /\ LET step == EnsureLoadedStep(ret[1], Top.attempt)
     IN IF step.do = "return"
        THEN Return(step.val) /\ sleeps' = sleeps
        ELSE /\ Goto([Top EXCEPT !.attempt = @ + 1, !.pc = "load"])
             /\ sleeps' = sleeps + 1
  /\ UNCHANGED << env, app, child, elapsed, op, calls, last, last_out >>

ensure_model_loaded == EnsureLoadedLoad \/ EnsureLoadedRetried

(***************************************************************************)
(* FoundryManager::get_endpoint_info                                       *)
(***************************************************************************)
CallGetEndpointInfo ==
  /\ op = Idle
  /\ op' = [Idle EXCEPT !.name = "get_endpoint_info"]
  /\ stack' = << [fn |-> "get_endpoint_info", pc |-> "endpoint",
                  endpoint |-> ""] >>
  /\ UNCHANGED << env, app, child, elapsed, ret, calls, sleeps, last, last_out >>

\* the `?` of line 186
AfterEndpoint(r) == IF IsErr(r) THEN Finish(r) ELSE Continue

\* line 186 and the call of line 187
EndpointInfoEndpoint ==
  /\ At("get_endpoint_info", "endpoint")
  /\ \E out \in StatusOutputs :
       LET r == EndpointOf[out]
           step == AfterEndpoint(r)
       IN /\ Invoke("status", out)
          /\ last' = [last EXCEPT !["get_endpoint_url"] = Some(r)]
          /\ IF step.do = "return" THEN Return(step.val)
             ELSE Call([Top EXCEPT !.pc = "retried", !.endpoint = r.val],
                       ModelIdRetryFrame)
  /\ UNCHANGED << env, app, child, elapsed, op, sleeps >>

\* the `?` of line 187 and line 189
EndpointInfoRetried ==
  /\ At("get_endpoint_info", "retried")
  /\ IF IsErr(ret[1]) THEN Return(ret[1])
     ELSE Return(Ok(<< Top.endpoint, ret[1].val >>))
  /\ UNCHANGED << env, app, child, elapsed, op, calls, sleeps, last, last_out >>

get_endpoint_info == EndpointInfoEndpoint \/ EndpointInfoRetried

(***************************************************************************)
(* commands/foundry.rs: what the two commands pass to the manager.  The    *)
(* 8 s of start_service_with_timeout are 32 polls of 250 ms; the model     *)
(* runs the commands with the timeout and the attempts cut to two bounds   *)
(* of their own.                                                           *)
(***************************************************************************)
StartTimeoutSecs == 8

CacheWaitAttempts == 120

\* the most polls of 250 ms a command waits for the start verb
MaxCommandTimeout == 1
\* the most cache queries a command waits for the model with
MaxCommandAttempts == 2

CommandTimeout == Min({4 * StartTimeoutSecs, MaxCommandTimeout})

CommandAttempts == Min({CacheWaitAttempts, MaxCommandAttempts})

StartServiceFrame(t) ==
  [fn |-> "start_service_with_timeout", pc |-> "spawn", timeout |-> t]

EndpointInfoFrame ==
  [fn |-> "get_endpoint_info", pc |-> "endpoint", endpoint |-> ""]

\* a command returns r to the front end
Reply(r) == Return(r) /\ reply' = Some(r)

\* `.map_err(|e| format!("<context>: {}", e))?` on a result
MapErr(context, r) == IF IsErr(r) THEN Err(context \o ": " \o r.val) ELSE r

NotInstalled == Err("Foundry Local is not installed.")

(***************************************************************************)
(* commands/foundry.rs: configure_foundry_integration_command              *)
(***************************************************************************)
FoundryConfig(info) == [endpoint_url |-> info[1], model_id |-> info[2]]

\* the arguments of update_foundry_settings, line 196
SettingsArgsMutant(info) == << info[1], None >>

SettingsArgs(info) == << info[1], Some(info[2]) >>

CallConfigure ==
  /\ op = Idle
  /\ op' = [Idle EXCEPT !.name = "configure_foundry_integration_command"]
  /\ stack' = << [fn |-> "configure_foundry_integration_command",
                  pc |-> "installed"] >>
  /\ UNCHANGED << env, app, child, elapsed, ret, calls, sleeps, last, last_out >>

\* lines 165-167
ConfigureInstalled ==
  /\ At("configure_foundry_integration_command", "installed")
  /\ \E out \in VerbOutputs :
       LET installed == is_installed(out, path_exists)
       IN /\ Invoke("help", out)
          /\ last' = [last EXCEPT !["is_installed"] = Some(installed)]
          /\ IF installed
             THEN Goto([Top EXCEPT !.pc = "running"]) /\ reply' = reply
             ELSE Reply(NotInstalled)
  /\ UNCHANGED << env, settings, tasks, integrations, child, elapsed, op,
                  sleeps >>

ConfigureRunningMutant ==
  /\ At("configure_foundry_integration_command", "running")
  /\ \E out \in StatusOutputs :
       LET running == MapErr("Failed to check Foundry service status",
                             RunningOf[out])
       IN /\ Invoke("status", out)
          /\ last' = [last EXCEPT !["is_service_running"] = Some(RunningOf[out])]
          /\ IF IsErr(running) THEN Reply(running)
             ELSE IF running.val
             THEN /\ Call([Top EXCEPT !.pc = "started"],
                          StartServiceFrame(CommandTimeout))
                  /\ reply' = reply
             ELSE /\ Call([Top EXCEPT !.pc = "downloaded"],
                          EnsureDownloadedFrame(DEFAULT_FOUNDRY_MODEL))
                  /\ reply' = reply
  /\ UNCHANGED << env, settings, tasks, integrations, child, elapsed, op,
                  sleeps >>

\* lines 169-172 and the call of line 176 when the service runs
ConfigureRunning ==
  /\ At("configure_foundry_integration_command", "running")
  /\ \E out \in StatusOutputs :
       LET running == MapErr("Failed to check Foundry service status",
                             RunningOf[out])
       IN /\ Invoke("status", out)
          /\ last' = [last EXCEPT !["is_service_running"] = Some(RunningOf[out])]
          /\ IF IsErr(running) THEN Reply(running)
             ELSE IF ~running.val
             THEN /\ Call([Top EXCEPT !.pc = "started"],
                          StartServiceFrame(CommandTimeout))
                  /\ reply' = reply
             ELSE /\ Call([Top EXCEPT !.pc = "downloaded"],
                          EnsureDownloadedFrame(DEFAULT_FOUNDRY_MODEL))
                  /\ reply' = reply
  /\ UNCHANGED << env, settings, tasks, integrations, child, elapsed, op,
                  sleeps >>

\* the `?` of line 173 and the call of line 176
ConfigureStarted ==
  /\ At("configure_foundry_integration_command", "started")
  /\ last' = [last EXCEPT !["start_service_with_timeout"] = ret]
  /\ IF IsErr(ret[1])
     THEN Reply(MapErr("Failed to ensure Foundry service is running", ret[1]))
     ELSE /\ Call([Top EXCEPT !.pc = "downloaded"],
                  EnsureDownloadedFrame(DEFAULT_FOUNDRY_MODEL))
          /\ reply' = reply
  /\ UNCHANGED << env, settings, tasks, integrations, child, elapsed, op,
                  calls, sleeps, last_out >>

\* the `?` of line 180 and the call of lines 183-187
ConfigureDownloaded ==
  /\ At("configure_foundry_integration_command", "downloaded")
  /\ last' = [last EXCEPT !["ensure_model_downloaded"] = ret]
  /\ IF IsErr(ret[1])
     THEN Reply(MapErr("Failed to download Foundry model", ret[1]))
     ELSE /\ Call([Top EXCEPT !.pc = "waited"],
                  WaitCachedFrame(DEFAULT_FOUNDRY_MODEL, CommandAttempts))
          /\ reply' = reply
  /\ UNCHANGED << env, settings, tasks, integrations, child, elapsed, op,
                  calls, sleeps, last_out >>

\* lines 188-191, where an error is only logged, and the call of line 193
ConfigureWaited ==
  /\ At("configure_foundry_integration_command", "waited")
  /\ last' = [last EXCEPT !["wait_for_model_cached"] = ret]
  /\ Call([Top EXCEPT !.pc = "info"], EndpointInfoFrame)
  /\ UNCHANGED << env, app, child, elapsed, op, calls, sleeps, last_out >>

\* the `?` of line 194 and lines 196-203: update_foundry_settings is called
\* with the two values and succeeds or fails
ConfigureInfo ==
  /\ At("configure_foundry_integration_command", "info")
  /\ last' = [last EXCEPT !["get_endpoint_info"] = ret]
  /\ IF IsErr(ret[1])
     THEN /\ Reply(MapErr("Failed to discover Foundry endpoint and model",
                          ret[1]))
          /\ settings' = settings
     ELSE /\ settings' = Append(settings, SettingsArgs(ret[1].val))
          /\ \E updated \in {Ok(Unit), Err("settings store")} :
               IF IsErr(updated)
               THEN Reply(MapErr("Failed to update Handy settings with Foundry configuration",
                                 updated))
               ELSE Reply(Ok(FoundryConfig(ret[1].val)))
  /\ UNCHANGED << env, tasks, integrations, child, elapsed, op, calls, sleeps,
                  last_out >>

configure_foundry_integration_command ==
  \/ ConfigureInstalled
  \/ ConfigureRunning
  \/ ConfigureStarted
  \/ ConfigureDownloaded
  \/ ConfigureWaited
  \/ ConfigureInfo

(***************************************************************************)
(* commands/foundry.rs: start_foundry_service_command.  tokio::spawn hands *)
(* the model load to a task of its own and the command returns Ok(()) with *)
(* its next statement; from then on the stack is that of the task.         *)
(***************************************************************************)
StartCommand == "start_foundry_service_command"

ModelLoadTask == "start_foundry_service_command/spawn"

CallStartCommand ==
  /\ op = Idle
  /\ op' = [Idle EXCEPT !.name = StartCommand]
  /\ stack' = << [fn |-> StartCommand, pc |-> "installed"] >>
  /\ UNCHANGED << env, app, child, elapsed, ret, calls, sleeps, last, last_out >>

\* lines 102-106
StartCommandInstalled ==
  /\ At(StartCommand, "installed")
  /\ \E out \in VerbOutputs :
       LET installed == is_installed(out, path_exists)
       IN /\ Invoke("help", out)
          /\ last' = [last EXCEPT !["is_installed"] = Some(installed)]
          /\ IF installed
             THEN /\ Call([Top EXCEPT !.pc = "started"],
                          StartServiceFrame(CommandTimeout))
                  /\ reply' = reply
             ELSE Reply(NotInstalled)
  /\ UNCHANGED << env, settings, tasks, integrations, child, elapsed, op,
                  sleeps >>

AfterStartServiceMutant(r) == Continue

\* the `?` of line 107
AfterStartService(r) ==
  IF IsErr(r) THEN Finish(MapErr("Failed to start Foundry service", r))
  ELSE Continue

\* lines 106-112 and 157: the task is spawned, it enters spawn_blocking and
\* calls ensure_model_downloaded, and the command returns
StartCommandStarted ==
  /\ At(StartCommand, "started")
  /\ last' = [last EXCEPT !["start_service_with_timeout"] = ret]
  /\ LET step == AfterStartService(ret[1])
     IN IF step.do = "return"
        THEN Reply(step.val) /\ tasks' = tasks
        ELSE /\ tasks' = tasks + 1
             /\ reply' = Some(Ok(Unit))
             /\ ret' = Some(Ok(Unit))
             /\ stack' = << [fn |-> ModelLoadTask, pc |-> "downloaded"],
                            EnsureDownloadedFrame(DEFAULT_FOUNDRY_MODEL) >>
  /\ UNCHANGED << env, settings, integrations, child, elapsed, op, calls,
                  sleeps, last_out >>

\* lines 112-146: the `?` on ensure_model_downloaded, run_model, the result
\* of the two only logged, and the call of wait_for_model_cached
TaskDownloaded ==
  /\ At(ModelLoadTask, "downloaded")
  /\ IF IsErr(ret[1])
     THEN /\ last' = [last EXCEPT !["ensure_model_downloaded"] = ret]
          /\ UNCHANGED << calls, last_out >>
     ELSE \E out \in VerbOutputs :
            /\ Invoke("load", out)
            /\ last' = [last EXCEPT
                          !["ensure_model_downloaded"] = ret,
                          !["run_model"] =
                            Some(run_model(DEFAULT_FOUNDRY_MODEL, out))]
  /\ Call([Top EXCEPT !.pc = "waited"],
          WaitCachedFrame(DEFAULT_FOUNDRY_MODEL, CommandAttempts))
  /\ UNCHANGED << env, app, child, elapsed, op, sleeps >>

\* lines 141-153: the result of the wait only logged, the call of
\* initialize_foundry_integration, its result only logged, the task ends
TaskWaited ==
  /\ At(ModelLoadTask, "waited")
  /\ last' = [last EXCEPT !["wait_for_model_cached"] = ret]
  /\ integrations' = integrations + 1
  /\ Return(Ok(Unit))
  /\ UNCHANGED << env, settings, reply, tasks, child, elapsed, op, calls,
                  sleeps, last_out >>

start_foundry_service_command ==
  \/ StartCommandInstalled
  \/ StartCommandStarted
  \/ TaskDownloaded
  \/ TaskWaited

Next ==
  \/ CallGetStatus
  \/ get_foundry_status
  \/ CallIsServiceRunning
  \/ CallGetModelIdOnce
  \/ CallIsInstalled
  \/ CallIsModelCached
  \/ CallExtractEndpointUrl
  \/ CallExtractModelId
  \/ CallInstall
  \/ install_foundry_local
  \/ get_version
  \/ CallStartService
  \/ start_service_with_timeout
  \/ ChildExits
  \/ CallEnsureModelDownloaded
  \/ ensure_model_downloaded
  \/ CallWaitForModelCached
  \/ WaitCachedPoll
  \/ CallWaitForServiceReady
  \/ wait_for_service_ready
  \/ ModelIdRetryPoll
  \/ CallEnsureModelLoaded
  \/ ensure_model_loaded
  \/ CallGetEndpointInfo
  \/ get_endpoint_info

Spec == Init /\ [][Next]_vars

\* the commands, with the manager functions they call
CommandNext ==
  \/ CallConfigure
  \/ configure_foundry_integration_command
  \/ CallStartCommand
  \/ start_foundry_service_command
  \/ start_service_with_timeout
  \/ ChildExits
  \/ ensure_model_downloaded
  \/ WaitCachedPoll
  \/ get_endpoint_info
  \/ ModelIdRetryPoll

CommandSpec == Init /\ [][CommandNext]_vars

(***************************************************************************)
(* The polling operations on their own, with the progress of the calling   *)
(* thread: a function that was called takes its next step (its external    *)
(* invocation returns, its sleep ends).  Nothing makes a caller call, and  *)
(* nothing makes the child of the start verb exit.                         *)
(***************************************************************************)
PollingSteps ==
  \/ start_service_with_timeout
  \/ WaitCachedPoll
  \/ wait_for_service_ready
  \/ ModelIdRetryPoll
  \/ ensure_model_loaded
  \/ get_endpoint_info

PollingNext ==
  \/ CallStartService
  \/ CallWaitForModelCached
  \/ CallWaitForServiceReady
  \/ CallEnsureModelLoaded
  \/ CallGetEndpointInfo
  \/ ChildExits
  \/ PollingSteps

PollingSpec == Init /\ [][PollingNext]_vars /\ WF_vars(PollingSteps)

(***************************************************************************)
(* Properties.                                                             *)
(***************************************************************************)
Returned(name) == Done /\ op.name = name

Issued(q) == last[q] # None

Failed(q) == Issued(q) /\ IsErr(last[q][1])

Succeeded(q) == Issued(q) /\ IsOk(last[q][1])

Yielded(q, v) == Succeeded(q) /\ last[q][1].val = v

OnlyCalls(n) == calls = [v \in Verbs |-> IF v \in DOMAIN n THEN n[v] ELSE 0]

AbsentStatus ==
  [installed |-> FALSE, running |-> FALSE, endpoint_url |-> None,
   model_id |-> None, model_cached |-> FALSE]

\* C1: every snapshot get_foundry_status returns has no endpoint_url and no
\* model_id when running is false, and running false when installed is
\* false, whatever the sub-queries answered
C1_SnapshotInvariant ==
  Returned("get_foundry_status") =>
    /\ IsOk(result)
    /\ ~result.val.running =>
         result.val.endpoint_url = None /\ result.val.model_id = None
    /\ ~result.val.installed => ~result.val.running

\* C1 witness: a snapshot of an installed product whose running check failed
C1_Witness ==
  /\ Returned("get_foundry_status")
  /\ result.val.installed
  /\ ~result.val.running
  /\ Failed("is_service_running")

StatusQueries ==
  {"is_service_running", "is_model_cached", "get_endpoint_url",
   "get_model_id_once"}

\* the fields of a returned snapshot that come from failed sub-queries are
\* absent, and those of successful ones are what the sub-query produced
C2_FieldsFollowQueries ==
  /\ Failed("is_service_running") => ~result.val.running
  /\ Failed("is_model_cached") => ~result.val.model_cached
  /\ Failed("get_endpoint_url") => result.val.endpoint_url = None
  /\ Failed("get_model_id_once") => result.val.model_id = None
  /\ Succeeded("is_service_running") =>
       result.val.running = last["is_service_running"][1].val
  /\ Succeeded("is_model_cached") =>
       result.val.model_cached = last["is_model_cached"][1].val
  /\ Succeeded("get_endpoint_url") =>
       result.val.endpoint_url = Some(last["get_endpoint_url"][1].val)
  /\ Succeeded("get_model_id_once") =>
       result.val.model_id = last["get_model_id_once"][1].val

\* C2 as claimed: get_foundry_status returns a snapshot, never an error, the
\* field of each failed sub-query is absent, and a failure of any one
\* sub-query leaves every other sub-query issued and its field as produced
C2_Original ==
  Returned("get_foundry_status") =>
    /\ IsOk(result)
    /\ C2_FieldsFollowQueries
    /\ \A q \in StatusQueries :
         Failed(q) => \A other \in StatusQueries : Issued(other)

\* C2 amended: get_foundry_status returns a snapshot, never an error, the
\* field of each failed sub-query is absent; a failure of the cache, endpoint
\* or model-id query leaves every other sub-query issued and its field as
\* produced; a failure of the running check makes running false and the
\* three queries that depend on it are not issued
C2_PartialFailure ==
  Returned("get_foundry_status") =>
    /\ IsOk(result)
    /\ C2_FieldsFollowQueries
    /\ \A q \in StatusQueries \ {"is_service_running"} :
         Failed(q) => \A other \in StatusQueries : Issued(other)
    /\ Failed("is_service_running") =>
         /\ ~result.val.running
         /\ \A q \in StatusQueries \ {"is_service_running"} : ~Issued(q)

\* C2 witness: the endpoint query failed, the cache and model-id queries
\* were issued all the same and their values are in the snapshot
C2_Witness ==
  /\ Returned("get_foundry_status")
  /\ Failed("get_endpoint_url")
  /\ Yielded("is_model_cached", TRUE)
  /\ Succeeded("get_model_id_once")
  /\ result.val.model_id # None
  /\ result.val.model_cached

\* C3: get_foundry_status queries in dependency order: the running query only
\* after is_installed returned true; the cache, endpoint and model-id queries
\* only after the running query returned true; not installed means one
\* invocation (the installation check) and the all-absent snapshot
C3_DependencyOrder ==
  op.name = "get_foundry_status" =>
    /\ calls["status"] > 0 => last["is_installed"] = Some(TRUE)
    /\ (calls["cache"] > 0 \/ calls["list"] > 0 \/ calls["status"] > 1) =>
         Yielded("is_service_running", TRUE)
    /\ (Done /\ last["is_installed"] = Some(FALSE)) =>
         OnlyCalls([help |-> 1]) /\ result = Ok(AbsentStatus)

\* C3 witness: a snapshot of a product that is not installed
C3_Witness ==
  /\ Returned("get_foundry_status")
  /\ last["is_installed"] = Some(FALSE)
  /\ calls["help"] = 1

PhraseIn(out) ==
  \E t \in {out.stdout, out.stderr} :
    contains(t, "not running") \/ contains(t, "not responding")

\* C4 as claimed: is_service_running returns Ok(false) whenever stdout or
\* stderr of the status command contains "not running" or "not responding",
\* for every exit code
C4_Original ==
  (Returned("is_service_running") /\ last_out[1].spawned
     /\ PhraseIn(last_out[1])) =>
    (IsOk(result) /\ result.val = FALSE)

\* what start_service_with_timeout returns when the child exited zero and
\* when the deadline passed with the child still running
C5_SuccessCases ==
  /\ Yielded("try_wait", Some(TRUE)) => IsOk(result)
  /\ Yielded("try_wait", None) => IsOk(result) /\ elapsed >= op.timeout

\* C5 as claimed: start_service_with_timeout returns failure only if the
\* child has been observed to exit non-zero, success if it is observed to
\* exit zero, and success at the deadline with the child still running
C5_Original ==
  Returned("start_service_with_timeout") =>
    /\ IsErr(result) => Yielded("try_wait", Some(FALSE))
    /\ C5_SuccessCases

\* C5 amended: start_service_with_timeout returns failure only if the child
\* could not be spawned, try_wait failed, or the child has been observed to
\* exit non-zero; success if it is observed to exit zero; success at the
\* deadline with the child still running; and returning never changes the
\* child (it is not killed, nor waited for)
C5_StartWithTimeout ==
  /\ [](Returned("start_service_with_timeout") =>
          /\ IsErr(result) =>
               \/ ~Issued("try_wait") /\ child = "none"
               \/ Failed("try_wait")
               \/ Yielded("try_wait", Some(FALSE))
          /\ C5_SuccessCases)
  /\ [][(At("start_service_with_timeout", "poll") /\ Done') =>
          /\ child' = child
          /\ Yielded("try_wait", None)' => child' = "running"]_vars

\* C5 witness: the deadline passed, the child still runs, success returned
C5_Witness ==
  /\ Returned("start_service_with_timeout")
  /\ op.timeout > 0
  /\ Yielded("try_wait", None)
  /\ IsOk(result)
  /\ child = "running"
  /\ elapsed >= op.timeout

\* C6: ensure_model_downloaded makes one cache query, then no download when
\* it reported true and exactly one when it reported false, never a download
\* before the cache query returned false; a download that exits non-zero is
\* returned as an error
C6_DownloadOnlyWhenNotCached ==
  op.name = "ensure_model_downloaded" =>
    /\ calls["cache"] <= 1 /\ calls["download"] <= 1
    /\ calls["download"] > 0 => Yielded("is_model_cached", FALSE)
    /\ Done =>
         /\ calls["cache"] = 1
         /\ Yielded("is_model_cached", TRUE) =>
              calls["download"] = 0 /\ result = Ok(Unit)
         /\ Yielded("is_model_cached", FALSE) => calls["download"] = 1
         /\ (calls["download"] = 1 /\ last_out[1].spawned
               /\ ~last_out[1].success) => IsErr(result)

\* C6 witness: not cached, one download, which exited non-zero
C6_Witness ==
  /\ Returned("ensure_model_downloaded")
  /\ Yielded("is_model_cached", FALSE)
  /\ calls["download"] = 1
  /\ last_out[1].spawned /\ ~last_out[1].success
  /\ IsErr(result)

CacheTimeout == Err("Foundry model was not cached in time.")

\* C7: wait_for_model_cached(name, N, delay) makes at most N cache queries,
\* returns success at the first that reports cached and queries no more;
\* when all N report not cached it returns the timeout error after exactly
\* N queries and N-1 sleeps, one sleep after every query but the last
C7_BoundedCacheWait ==
  op.name = "wait_for_model_cached" =>
    /\ calls["cache"] <= op.attempts
    /\ Yielded("is_model_cached", TRUE) => Done /\ result = Ok(Unit)
    /\ ~Done => sleeps = calls["cache"]
    /\ Done =>
         /\ sleeps = calls["cache"] - 1
         /\ Yielded("is_model_cached", FALSE) => result = CacheTimeout
         /\ result = CacheTimeout =>
              /\ Yielded("is_model_cached", FALSE)
              /\ calls["cache"] = op.attempts
              /\ sleeps = op.attempts - 1

\* C7 witness: several attempts, none found the model, timeout
C7_Witness ==
  /\ Returned("wait_for_model_cached")
  /\ op.attempts >= 2
  /\ result = CacheTimeout
  /\ calls["cache"] = op.attempts

\* the identifier the latest get_model_id_once yielded is being returned:
\* get_model_id_with_retry has returned it and its caller is about to
\* return, or the call under way has returned
IdentifierFound == Succeeded("get_model_id_once")
                     /\ last["get_model_id_once"][1].val # None

FoundId == last["get_model_id_once"][1].val[1]

Retried(fn) == At(fn, "retried") /\ ret = Some(Ok(FoundId))

\* C8: ensure_model_loaded makes at most 3 load invocations, each followed
\* by at most 10 identifier queries; the first query that yields an
\* identifier ends it with that identifier, no load or query follows; the
\* retry-exhausted error comes only after 3 loads, each with its queries
C8_LoadAttempts ==
  op.name = "ensure_model_loaded" =>
    /\ calls["load"] <= LoadAttempts
    /\ calls["list"] <= ModelIdAttempts * calls["load"]
    /\ At("get_model_id_with_retry", "loop") =>
         Top.attempt <= ModelIdAttempts /\ Len(stack) = 2
    /\ IdentifierFound =>
         \/ Retried("ensure_model_loaded")
         \/ Done /\ result = Ok(FoundId)
    /\ (Done /\ IsOk(result)) => IdentifierFound
    /\ (Done /\ result = Err(LoadExhausted)) =>
         calls["load"] = LoadAttempts /\ calls["list"] >= LoadAttempts

\* C8 witness: three loads, ten queries after each, none found a model
C8_Witness ==
  /\ Returned("ensure_model_loaded")
  /\ result = Err(LoadExhausted)
  /\ calls["load"] = LoadAttempts
  /\ calls["list"] = LoadAttempts * ModelIdAttempts

\* the latest invocation exited non-zero, or its listing had no identifier
TransientFailure ==
  /\ last_out # None /\ last_out[1].spawned
  /\ \/ ~last_out[1].success
     \/ last["get_model_id_once"] = Some(Err(ModelIdNotFound))

\* the attempts of the compound operation under way are used up
BudgetExhausted ==
  CASE op.name = "wait_for_model_cached" -> calls["cache"] = op.attempts
    [] op.name = "wait_for_service_ready" -> calls["status"] = op.attempts
    [] op.name = "ensure_model_loaded" -> calls["load"] = LoadAttempts
    [] op.name = "get_endpoint_info" -> calls["list"] = ModelIdAttempts

\* C9 as claimed: a compound operation (ensure_model_loaded, the identifier
\* retry loop of get_endpoint_info, wait_for_model_cached,
\* wait_for_service_ready) whose sub-step failed with a non-zero exit or a
\* listing without identifier returns an error only when its attempts are
\* used up
C9_Original ==
  (/\ Done
   /\ op.name \in {"wait_for_model_cached", "wait_for_service_ready",
                   "ensure_model_loaded", "get_endpoint_info"}
   /\ op.name = "get_endpoint_info" => Succeeded("get_endpoint_url")
   /\ IsErr(result)
   /\ TransientFailure) => BudgetExhausted

\* C10: get_endpoint_info makes exactly one status query and, only if it
\* gave a URL, up to 10 identifier queries; it returns that URL with the
\* identifier of the first identifier query that yields one; when the
\* status query fails it returns its error, with no identifier query and no
\* second status query
C10_EndpointInfo ==
  op.name = "get_endpoint_info" =>
    /\ calls["status"] <= 1
    /\ calls["list"] <= ModelIdAttempts
    /\ calls["list"] > 0 => Succeeded("get_endpoint_url")
    /\ Failed("get_endpoint_url") =>
         Done /\ result = last["get_endpoint_url"][1] /\ calls["list"] = 0
    /\ IdentifierFound =>
         \/ Retried("get_endpoint_info")
         \/ /\ Done /\ IsOk(result)
            /\ result.val = << last["get_endpoint_url"][1].val, FoundId >>
    /\ Done => calls["status"] = 1
    /\ (Done /\ IsOk(result)) => IdentifierFound

\* C10 witness: a URL, then an identifier at the tenth identifier query
C10_Witness ==
  /\ Returned("get_endpoint_info")
  /\ IsOk(result)
  /\ calls["status"] = 1
  /\ calls["list"] = ModelIdAttempts

Sentinel == "no models are currently loaded"

\* the list outputs of a listing that exited zero and whose text holds the
\* sentinel phrase in some letter case
SentinelListings ==
  {out \in ListOutputs :
     out.spawned /\ out.success /\ contains(to_lowercase(out.stdout), Sentinel)}

\* C11: get_model_id_once returns None, neither an error nor an identifier,
\* whenever the text of the listing holds the phrase "no models are
\* currently loaded" in any letter case, whatever else the text holds: the
\* phrase is looked for before the extractor runs
C11_SentinelFirst ==
  (Returned("get_model_id_once") /\ last_out[1] \in SentinelListings) =>
    result = Ok(None)

\* C11 witness: the phrase in upper case, in a text that also has a glyph
\* line whose last token has the name:revision shape, and None returned
C11_Witness ==
  /\ Returned("get_model_id_once")
  /\ last_out[1] \in SentinelListings
  /\ ~contains(last_out[1].stdout, Sentinel)
  /\ IsOk(extract_model_id(last_out[1].stdout))
  /\ result = Ok(None)

\* what the claim says extract_endpoint_url returns for a UrlCase
BaseUrlOf(c) == c.scheme \o "://" \o c.host \o "/v1"

\* C12 as claimed: extract_endpoint_url fails with not-found exactly when no
\* line of the text has a URL, and else returns scheme://host[:port]/v1 of
\* the first URL of the text, with nothing of the URL's path, query or
\* fragment, also when the URL has no path, a trailing slash or a trailing
\* '.' or ','
C12_Original ==
  Returned("extract_endpoint_url") =>
    /\ op.text \in NoUrlTexts <=> IsErr(result)
    /\ \A c \in UrlCases : UrlText(c) = op.text => result = Ok(BaseUrlOf(c))

\* C13: for a text with a line that starts, after white space, with one of
\* the four glyphs followed by an alias and an identifier, extract_model_id
\* returns the last token of the first such line, also when an earlier line
\* without a glyph has a token of the shape name:digits; the name:digits
\* rule gives the result only for texts in which no glyph line does
C13_GlyphLineFirst ==
  Returned("extract_model_id") =>
    /\ \A c \in IdCases : IdText(c) = op.text => result = Ok(c.id)
    /\ \A p \in NoGlyphCases :
         p[1] = op.text =>
           IF p[2] = None THEN IsErr(result) ELSE result = Ok(p[2][1])

\* C13 witness: the identifier of the glyph line returned for a text whose
\* first line has no glyph and holds the token other-model:7
C13_Witness ==
  /\ Returned("extract_model_id")
  /\ \E c \in IdCases :
       /\ IdText(c) = op.text
       /\ revision_token(c.before) = Some("other-model:7")
       /\ result = Ok(c.id)

\* the cache listings with "not running", in some letter case, on stdout or
\* on stderr
NotRunningSignals ==
  {out \in CacheOutputs :
     /\ out.spawned
     /\ \/ contains(to_lowercase(out.stdout), "not running")
        \/ contains(to_lowercase(out.stderr), "not running")}

\* the cache listings one of whose lines holds the name, in any letter case
Listing(name) ==
  {out \in CacheOutputs :
     \E i \in 1..Len(lines(out.stdout)) :
       contains(to_lowercase(lines(out.stdout)[i]), to_lowercase(name))}

NamedListings == [name \in ModelNames |-> Listing(name)]

\* C14 as claimed: is_model_cached returns false, never an error and never
\* true, whenever stdout or stderr of the cache listing has "not running",
\* for every exit code and whether or not the output holds the model name;
\* otherwise, on a zero exit it returns true exactly if a line holds the
\* name in any letter case, and on a non-zero exit an error
C14_Original ==
  (Returned("is_model_cached") /\ last_out[1].spawned) =>
    IF last_out[1] \in NotRunningSignals THEN result = Ok(FALSE)
    ELSE IF last_out[1].success
    THEN result = Ok(last_out[1] \in NamedListings[op.model])
    ELSE IsErr(result)

\* C15 as claimed: is_installed returns true exactly if the help verb was
\* started and exited zero or a well-known install path exists; so it is
\* true when the path exists and the help verb ran and exited non-zero
C15_Original ==
  Returned("is_installed") =>
    result.val = ((last_out[1].spawned /\ last_out[1].success) \/ path_exists)

\* C16 as claimed: on every platform install_foundry_local asks a product
\* that is there to be run whether it is installed; if it is, the call
\* returns the result of the version query and winget is not run; only if
\* it is not does the call run winget (Windows) or fail as unsupported
\* (elsewhere); after a winget run that succeeded it returns the result of a
\* fresh version query
C16_Original ==
  Returned("install_foundry_local") =>
    /\ (Resolvable /\ calls["winget"] = 0) => Issued("is_installed")
    /\ ~Issued("is_installed") => result = Err(PlatformUnsupported)
    /\ last["is_installed"] = Some(TRUE) =>
         calls["winget"] = 0 /\ result = last["get_version"][1]
    /\ last["is_installed"] = Some(FALSE) =>
         IF op.windows
         THEN /\ calls["winget"] = 1
              /\ IF Succeeded("winget") THEN result = last["get_version"][1]
                 ELSE result = last["winget"][1]
         ELSE calls["winget"] = 0 /\ result = Err(PlatformUnsupported)

\* the status outputs of a zero exit whose text has `phrases`, in any
\* letter case, and not "not running"
Reporting(phrases) ==
  {out \in StatusOutputs :
     /\ out.spawned /\ out.success
     /\ ~contains(to_lowercase(out.stdout), "not running")
     /\ \A p \in phrases : contains(to_lowercase(out.stdout), p)}

ReadyReports == Reporting({"running on"}) \ Reporting({"in progress"})

StartingReports == Reporting({"running on", "in progress"})

ReadyTimeout == Err("Foundry service did not become ready in time.")

\* C17: wait_for_service_ready returns success only if the status query it
\* issued last exited zero with a text that has "running on" and neither
\* "in progress" nor "not running"; after a status text with "running on"
\* and "in progress" it polls again or, with no attempt left, returns the
\* timeout error; it never issues more than `attempts` status queries
C17_ReadyOnlyWhenRunning ==
  op.name = "wait_for_service_ready" =>
    /\ calls["status"] <= op.attempts
    /\ (Done /\ IsOk(result)) => last_out[1] \in ReadyReports
    /\ (last_out # None /\ last_out[1] \in StartingReports) =>
         IF calls["status"] < op.attempts
         THEN At("wait_for_service_ready", "loop")
              /\ Top.attempt = calls["status"] + 1
         ELSE Done /\ result = ReadyTimeout

\* C17 witness: success on a later poll, after a query that did not report
\* the service as ready
C17_Witness ==
  /\ Returned("wait_for_service_ready")
  /\ IsOk(result)
  /\ sleeps >= 1
  /\ calls["status"] >= 2

Configure == "configure_foundry_integration_command"

\* every step of configure before update_foundry_settings succeeded
DiscoveryDone ==
  /\ last["is_installed"] = Some(TRUE)
  /\ Succeeded("is_service_running")
  /\ ~last["is_service_running"][1].val =>
       Succeeded("start_service_with_timeout")
  /\ Succeeded("ensure_model_downloaded")
  /\ Issued("wait_for_model_cached")
  /\ Succeeded("get_endpoint_info")

\* C18: configure calls update_foundry_settings at most once, only after
\* get_endpoint_info returned an endpoint and a model id, and with just
\* these two values; when it fails before that call (not installed, running
\* check failed, start failed, download failed, endpoint or id not found)
\* the settings are untouched and it returns an error
C18_SettingsAfterDiscovery ==
  op.name = Configure =>
    /\ Len(settings) <= 1
    /\ settings # << >> =>
         /\ DiscoveryDone
         /\ settings[1] = << last["get_endpoint_info"][1].val[1],
                             Some(last["get_endpoint_info"][1].val[2]) >>
         /\ last["get_endpoint_info"][1].val[1]
              = last["get_endpoint_url"][1].val
         /\ Some(last["get_endpoint_info"][1].val[2])
              = last["get_model_id_once"][1].val
    /\ Done =>
         /\ reply = Some(result)
         /\ ~DiscoveryDone => settings = << >> /\ IsErr(result)
         /\ IsOk(result) =>
              settings = << << result.val.endpoint_url,
                               Some(result.val.model_id) >> >>

\* C18 witness: configure started the service, the wait for the cache
\* failed and was passed over, and the settings were updated with the
\* endpoint and the model id it then returned
C18_Witness ==
  /\ Returned(Configure)
  /\ IsOk(result)
  /\ calls["start"] = 1
  /\ Failed("wait_for_model_cached")
  /\ settings = << << "http://127.0.0.1:49798/v1",
                      Some("Phi-4-mini-instruct-openvino-gpu:1") >> >>

\* invocations and calls that only the background task makes
TaskSteps ==
  calls["cache"] + calls["download"] + calls["load"] + integrations

\* what start_foundry_service_command returns, from the installation check
\* and the result of start_service_with_timeout alone
StartReply ==
  IF last["is_installed"] = Some(FALSE) THEN NotInstalled
  ELSE IF Failed("start_service_with_timeout")
  THEN MapErr("Failed to start Foundry service",
              last["start_service_with_timeout"][1])
  ELSE Ok(Unit)

\* C19: what start_foundry_service_command returns follows from the
\* installation check and start_service_with_timeout alone; once the start
\* succeeded it returns success before the background task has made any
\* step, and no failure of download, load, cache wait or integration
\* changes what was returned; if the product is not installed or the start
\* fails it returns an error and no task is spawned, so that no download
\* or load is invoked
C19_StartReturns ==
  /\ [](op.name = StartCommand =>
         /\ reply # None =>
              /\ Issued("is_installed")
              /\ last["is_installed"] = Some(TRUE) =>
                   Issued("start_service_with_timeout")
              /\ reply[1] = StartReply
         /\ (reply # None /\ IsErr(reply[1])) =>
              Done /\ tasks = 0 /\ TaskSteps = 0
         /\ tasks <= 1
         /\ tasks = 0 => TaskSteps = 0
         /\ tasks = 1 =>
              reply = Some(Ok(Unit)) /\ Succeeded("start_service_with_timeout"))
  /\ [][op.name = StartCommand =>
          /\ reply # None => reply' = reply
          /\ (reply = None /\ reply' = Some(Ok(Unit))) =>
               tasks' = 1 /\ TaskSteps' = 0 /\ stack' # << >>]_vars

\* C19 witness: success was returned and the background task then failed
\* to download the model, waited for the cache in vain and was through
\* with the integration
C19_Witness ==
  /\ Returned(StartCommand)
  /\ reply = Some(Ok(Unit))
  /\ Failed("download_model")
  /\ Failed("ensure_model_downloaded")
  /\ Failed("wait_for_model_cached")
  /\ integrations = 1

\* the endpoints and the model of the end-to-end case
Endpoints ==
  {[scheme |-> "http", host |-> "127.0.0.1:49798"],
   [scheme |-> "https", host |-> "localhost:5273"]}

LoadedModel ==
  [glyph |-> GreenGlyph, alias |-> "phi-4-mini",
   id |-> "Phi-4-mini-instruct-openvino-gpu:1"]

\* status queries that exit zero and report "running on <url>/openai/status"
RunningReports(e) ==
  {out \in StatusOutputs :
     /\ out.spawned /\ out.success
     /\ contains(out.stdout, "running on " \o e.scheme \o "://" \o e.host
                              \o "/openai/status")}

\* listings that exit zero: the header and the line "<glyph> <alias> <id>"
LoadedListings ==
  {out \in ListOutputs :
     /\ out.spawned /\ out.success
     /\ out.stdout = "Models running in service:\n    Alias     Model ID\n"
                       \o LoadedModel.glyph \o "  " \o LoadedModel.alias
                       \o "    " \o LoadedModel.id}

\* cache listings that exit zero and hold the name of the default model
CachedListings ==
  {out \in CacheOutputs :
     out.spawned /\ out.success /\ contains(out.stdout, DEFAULT_FOUNDRY_MODEL)}

\* the sub-queries of the snapshot answered as in the end-to-end case, the
\* two status queries reporting endpoint e
EndToEnd(e) ==
  /\ last["is_installed"] = Some(TRUE)
  /\ \E out \in RunningReports(e) :
       last["is_service_running"] = Some(RunningOf[out])
  /\ \E out \in CachedListings :
       last["is_model_cached"] = Some(CachedOf[DEFAULT_FOUNDRY_MODEL][out])
  /\ \E out \in RunningReports(e) :
       last["get_endpoint_url"] = Some(EndpointOf[out])
  /\ last_out[1] \in LoadedListings

EndToEndStatus(e) ==
  [installed |-> TRUE, running |-> TRUE,
   endpoint_url |-> Some(e.scheme \o "://" \o e.host \o "/v1"),
   model_id |-> Some(LoadedModel.id), model_cached |-> TRUE]

\* C20: when the product is installed, the status queries exit zero
\* reporting "running on <scheme>://<host:port>/openai/status", the listing
\* exits zero with the line "<glyph> <alias> <model-id>" and the cache
\* listing exits zero and holds the default model name, get_foundry_status
\* returns installed, running, endpoint_url <scheme>://<host:port>/v1, the
\* model id and model_cached
C20_EndToEnd ==
  Returned("get_foundry_status") =>
    \A e \in Endpoints : EndToEnd(e) => result = Ok(EndToEndStatus(e))

\* C20 witness: the snapshot of the end-to-end case with the https endpoint
C20_Witness ==
  /\ Returned("get_foundry_status")
  /\ \E e \in Endpoints :
       /\ e.scheme = "https"
       /\ EndToEnd(e)
       /\ result = Ok(EndToEndStatus(e))

\* C21 as claimed: every verb is started through the locator, so where the
\* install path exists start_service_with_timeout starts that executable and
\* does not fail with a spawn error for want of `foundry` on the search path
C21_Original ==
  (Returned("start_service_with_timeout") /\ path_exists /\ ~on_path) =>
    result # Err(SpawnError)

PollingOps ==
  {"start_service_with_timeout", "wait_for_model_cached",
   "wait_for_service_ready", "ensure_model_loaded", "get_endpoint_info"}

\* the invocations a polling operation has made are within its configured
\* number, and so are the turns of the identifier-retry loop under way
PollingBounds ==
  /\ op.name = "wait_for_model_cached" => calls["cache"] <= op.attempts
  /\ op.name = "wait_for_service_ready" => calls["status"] <= op.attempts
  /\ op.name = "ensure_model_loaded" =>
       /\ calls["load"] <= LoadAttempts
       /\ calls["list"] <= LoadAttempts * ModelIdAttempts
  /\ op.name = "get_endpoint_info" =>
       calls["status"] <= 1 /\ calls["list"] <= ModelIdAttempts
  /\ op.name = "start_service_with_timeout" =>
       calls["start"] <= 1 /\ sleeps <= op.timeout
  /\ At("get_model_id_with_retry", "loop") =>
       Top.attempt \in 1..Top.attempts
  /\ op.name \in PollingOps =>
       \A v \in Verbs : calls[v] # 0 =>
         v \in {"cache", "status", "load", "list", "start"}

\* the steps a frame can still take before it returns, its callee apart
FrameRank(f) ==
  CASE f.fn = "start_service_with_timeout" ->
         IF f.pc = "spawn" THEN f.timeout + 2
         ELSE Max({0, f.timeout - elapsed}) + 1
    [] f.fn = "wait_for_model_cached" -> f.attempts - f.attempt + 1
    [] f.fn = "wait_for_service_ready" -> f.attempts - f.attempt + 2
    [] f.fn = "get_model_id_with_retry" -> f.attempts - f.attempt + 1
    [] f.fn = "ensure_model_loaded" ->
         IF f.pc = "load"
         THEN (LoadAttempts - f.attempt + 1) * (ModelIdAttempts + 2)
         ELSE (LoadAttempts - f.attempt) * (ModelIdAttempts + 2) + 1
    [] f.fn = "get_endpoint_info" ->
         IF f.pc = "endpoint" THEN ModelIdAttempts + 2 ELSE 1

RECURSIVE RankOf(_)
RankOf(frames) ==
  IF frames = << >> THEN 0
  ELSE FrameRank(Head(frames)) + RankOf(Tail(frames))

\* a natural number: the steps the operation under way can still take
Rank == RankOf(stack)

\* C22: every polling operation returns once called, when each invocation
\* returns and each sleep ends (the weak fairness of PollingSpec): the
\* function on top of the stack can always take its step, whether or not
\* the child of the start verb exits; every such step lowers a rank that is
\* a natural number and is 0 only when the operation has returned; and the
\* invocations made stay within the configured number (N cache queries, N
\* status queries, 10 listings a retry loop, 3 loads and 30 listings, 1
\* status query and 10 listings, T quarter seconds of sleeps)
C22_PollingTerminates ==
  /\ []PollingBounds
  /\ [](Rank >= 0 /\ (Rank = 0 <=> stack = << >>))
  /\ [](stack # << >> => ENABLED PollingSteps)
  /\ [][PollingSteps => Rank' < Rank]_vars

\* C22 witness: ensure_model_loaded returned after all 3 loads and all 30
\* listings
C22_Witness ==
  /\ Returned("ensure_model_loaded")
  /\ calls["load"] = LoadAttempts
  /\ calls["list"] = LoadAttempts * ModelIdAttempts
  /\ result = Err(LoadExhausted)

\* the verbs configure runs after its start step
LaterVerbs == {"cache", "download", "list"}

\* C23: configure invokes the start verb at most once and only when its
\* is_service_running query returned false, never when it returned true;
\* when the product is not installed or that query failed it returns an
\* error and has invoked neither start nor download nor any later verb;
\* and the cache query of the download check is issued only after the
\* running query succeeded and, where it returned false, after
\* start_service_with_timeout returned success
C23_StartOnlyWhenStopped ==
  op.name = Configure =>
    /\ calls["start"] <= 1
    /\ calls["start"] = 1 => Yielded("is_service_running", FALSE)
    /\ Yielded("is_service_running", TRUE) => calls["start"] = 0
    /\ (last["is_installed"] = Some(FALSE) \/ Failed("is_service_running")) =>
         /\ calls["start"] = 0
         /\ \A v \in LaterVerbs : calls[v] = 0
         /\ Done /\ IsErr(result) /\ reply = Some(result)
    /\ last["is_installed"] = Some(FALSE) => calls["status"] = 0
    /\ (\E v \in LaterVerbs : calls[v] > 0) =>
         /\ last["is_installed"] = Some(TRUE)
         /\ Succeeded("is_service_running")
         /\ Yielded("is_service_running", FALSE) =>
              calls["start"] = 1 /\ Succeeded("start_service_with_timeout")

\* C23 witness: the running query returned false, the start verb was
\* invoked once and returned success, and the cache query of the download
\* check followed
C23_Witness ==
  /\ op.name = Configure
  /\ Yielded("is_service_running", FALSE)
  /\ calls["start"] = 1
  /\ Succeeded("start_service_with_timeout")
  /\ calls["cache"] = 1
  /\ Issued("is_model_cached")

====
